---- MODULE Spec2Model ----
(***************************************************************************)
(* Model of app_local.py: the price monitor that fetches product pages,    *)
(* extracts a price observation (parse_page), asks the SQLite store for    *)
(* the historical maximum (get_max_price), sends a Telegram message        *)
(* (send_telegram_message), appends the observation (save_to_database)     *)
(* and sleeps, for ever, until interrupted (main).                         *)
(*                                                                         *)
(* An optional HTML node is a sequence of zero or one texts.  Python's     *)
(* None is the record kind "None"; an exception leaving a function is the  *)
(* kind "ValueError".                                                      *)
(***************************************************************************)
EXTENDS Integers, Sequences, FiniteSets, TLC

(***************************************************************************)
(* Bounds of the model.                                                    *)
(***************************************************************************)
MaxRows == 2
MaxClock == 2
MaxPriceNodes == 2

(***************************************************************************)
(* Configuration: PRODUCT_URLS.                                            *)
(***************************************************************************)
PRODUCT_URLS == <<"MLB32171624", "MLB-1231793406">>

(***************************************************************************)
(* Characters are Unicode code points, a text is a sequence of them.       *)
(* Text writes a text of printable ASCII characters.                       *)
(***************************************************************************)
\* the characters of code points 32..95
Printable ==
    << " ", "!", "\"", "#", "$", "%", "&", "'", "(", ")", "*", "+", ",",
       "-", ".", "/", "0", "1", "2", "3", "4", "5", "6", "7", "8", "9",
       ":", ";", "<", "=", ">", "?", "@", "A", "B", "C", "D", "E", "F",
       "G", "H", "I", "J", "K", "L", "M", "N", "O", "P", "Q", "R", "S",
       "T", "U", "V", "W", "X", "Y", "Z", "[", "\\", "]", "^", "_" >>

\* the characters of code points 97..126
PrintableLower ==
    << "a", "b", "c", "d", "e", "f", "g", "h", "i", "j", "k", "l", "m",
       "n", "o", "p", "q", "r", "s", "t", "u", "v", "w", "x", "y", "z",
       "{", "|", "}", "~" >>

Ord(ch) ==
    IF \E i \in 1..Len(Printable) : Printable[i] = ch
    THEN 31 + (CHOOSE i \in 1..Len(Printable) : Printable[i] = ch)
    ELSE 96 + (CHOOSE i \in 1..Len(PrintableLower) : PrintableLower[i] = ch)

Text(s) == [i \in 1..Len(s) |-> Ord(s[i])]

(***************************************************************************)
(* Inputs: the texts the site may put into the nodes parse_page looks at.  *)
(* 10 is the line feed, 1633 the ARABIC-INDIC DIGIT ONE.                   *)
(***************************************************************************)
TitleTexts == { Text(<<"A">>), Text(<<"B">>), Text(<<"A", " ">>) }
NewPriceTexts ==
    { Text(<<"1">>), Text(<<"1", ".", "0">>), Text(<<"0">>), Text(<<"-", "1">>),
      Text(<<"x">>), Text(<<"1", "_", "0">>), <<10, 49, 10>>, <<1633>> }
InstallmentTexts == { Text(<<"1">>), Text(<<"x">>) }
ExtraPriceTexts == { Text(<<"1">>) }
OldPriceTexts == { Text(<<"x">>), Text(<<"0">>) }

RECURSIVE PriceLists(_)
PriceLists(n) ==
    IF n = 0 THEN { <<>> }
    ELSE IF n = 1 THEN { <<t>> : t \in NewPriceTexts }
    ELSE IF n = 2 THEN { <<t, u>> : t \in NewPriceTexts, u \in InstallmentTexts }
    ELSE { Append(l, e) : l \in PriceLists(n - 1), e \in ExtraPriceTexts }

Optional(S) == { <<>> } \cup { <<t>> : t \in S }

NoContent == [kind |-> "None", title |-> <<>>, prices |-> <<>>, old |-> <<>>]
EmptyHtml == [kind |-> "empty", title |-> <<>>, prices |-> <<>>, old |-> <<>>]

HtmlPages ==
    { [kind |-> "html", title |-> t, prices |-> p, old |-> o] :
        t \in Optional(TitleTexts),
        p \in UNION { PriceLists(n) : n \in 0..MaxPriceNodes },
        o \in Optional(OldPriceTexts) }

(***************************************************************************)
(* Text conversions.                                                       *)
(***************************************************************************)
\* the characters str.strip() removes: those with str.isspace()
StripSpaces ==
    {9, 10, 11, 12, 13, 28, 29, 30, 31, 32, 133, 160, 5760}
        \cup (8192..8202) \cup {8232, 8233, 8239, 8287, 12288}

\* the characters int() skips around the number: the ASCII blanks of C's
\* isspace and the non-ASCII characters with str.isspace()
IntSpaces == StripSpaces \ {28, 29, 30, 31}

IsSpace(c) == c \in StripSpaces

\* the positions of s that hold no character of spaces
Kept(s, spaces) == { i \in 1..Len(s) : s[i] \notin spaces }

\* s from its first character not in spaces on
LStripIn(s, spaces) ==
    IF Kept(s, spaces) = {} THEN <<>>
    ELSE SubSeq(s, CHOOSE i \in Kept(s, spaces) :
                      \A j \in Kept(s, spaces) : i <= j, Len(s))

\* s up to its last character not in spaces
RStripIn(s, spaces) ==
    IF Kept(s, spaces) = {} THEN <<>>
    ELSE SubSeq(s, 1, CHOOSE i \in Kept(s, spaces) :
                         \A j \in Kept(s, spaces) : j <= i)

LStrip(s) == LStripIn(s, StripSpaces)

RStrip(s) == RStripIn(s, StripSpaces)

\* get_text(strip=True) of a node holding one text
get_text(s) == RStrip(LStrip(s))

\* str.replace('.', '')
replace_dot(s) == SelectSeq(s, LAMBDA c : c # Ord("."))

\* the code points of the digit zero of every decimal digit set of Unicode
\* (category Nd); the digits 0..9 of a set are contiguous
DigitZeros ==
    { 48, 1632, 1776, 1984, 2406, 2534, 2662, 2790, 2918, 3046, 3174, 3302,
      3430, 3558, 3664, 3792, 3872, 4160, 4240, 6112, 6160, 6470, 6608,
      6784, 6800, 6992, 7088, 7232, 7248, 42528, 43216, 43264, 43472,
      43504, 43600, 44016, 65296, 66720, 68912, 69734, 69872, 69942, 70096,
      70384, 70736, 70864, 71248, 71360, 71472, 71904, 72016, 72784, 73040,
      73120, 92768, 92864, 93008, 120782, 120792, 120802, 120812, 120822,
      123200, 123632, 125264, 130032 }

IsDigit(c) == \E z \in DigitZeros : c \in z..(z + 9)

DigitVal(c) == c - (CHOOSE z \in DigitZeros : c \in z..(z + 9))

Underscore == Ord("_")

\* decimal digits, with single underscores only between two digits
AllDigits(s) ==
    /\ s # <<>>
    /\ \A i \in 1..Len(s) :
          \/ IsDigit(s[i])
          \/ /\ s[i] = Underscore
             /\ 1 < i /\ i < Len(s)
             /\ IsDigit(s[i - 1]) /\ IsDigit(s[i + 1])

\* sys.get_int_max_str_digits(): the longest decimal literal int() converts
IntMaxStrDigits == 4300

\* the digits int() counts against the limit: leading zeros count, the sign,
\* the blanks and the underscores do not
DigitCount(s) == Len(SelectSeq(s, IsDigit))

RECURSIVE Pow10(_)
Pow10(n) == IF n = 0 THEN 1 ELSE 10 * Pow10(n - 1)

\* the value of a literal, its underscores dropped; the literal is halved so
\* that a long run of leading zeros costs no deep recursion
RECURSIVE DecimalValue(_)
DecimalValue(s) ==
    IF s = <<>> THEN 0
    ELSE IF Len(s) = 1 THEN (IF s[1] = Underscore THEN 0 ELSE DigitVal(s[1]))
    ELSE LET h == Len(s) \div 2
             high == DecimalValue(SubSeq(s, 1, h))
             low == SubSeq(s, h + 1, Len(s))
         IN  IF high = 0 THEN DecimalValue(low)
             ELSE high * Pow10(DigitCount(low)) + DecimalValue(low)

\* int(str): blanks around, an optional ASCII sign, then at most
\* IntMaxStrDigits decimal digits of any script with single underscores
\* between them; anything else raises ValueError
py_int(s) ==
    LET t == RStripIn(LStripIn(s, IntSpaces), IntSpaces)
        signed == t # <<>> /\ Head(t) \in {Ord("-"), Ord("+")}
        body == IF signed THEN Tail(t) ELSE t
    IN  IF AllDigits(body) /\ DigitCount(body) <= IntMaxStrDigits
        THEN [ok |-> TRUE,
              val |-> IF signed /\ Head(t) = Ord("-") THEN 0 - DecimalValue(body)
                      ELSE DecimalValue(body)]
        ELSE [ok |-> FALSE, val |-> 0]

\* int(node.get_text(strip=True).replace('.', ''))
price_to_int(s) == py_int(replace_dot(get_text(s)))

(***************************************************************************)
(* parse_page.                                                             *)
(***************************************************************************)
\* None; log is the error parse_page logged before it returned
NoInfo ==
    [kind |-> "None", log |-> "none", product_name |-> <<>>, old_price |-> 0,
     new_price |-> 0, installment_price |-> 0, timestamp |-> 0]

Logged(l) == [NoInfo EXCEPT !.log = l]

Raised(e) == [NoInfo EXCEPT !.kind = e]

\* `if not html`: None and the empty string are both falsy
Falsy(html) == html.kind \in {"None", "empty"}

\* the price texts the try block converts, in the order it converts them
LocatedTexts(html) ==
    IF Falsy(html) \/ html.title = <<>> \/ Len(html.prices) < 2 THEN <<>>
    ELSE <<html.prices[1], html.prices[2]>> \o html.old

\* the other extraction policy: one price node is enough, the installment
\* price then defaults to the new price
parse_page_AtLeastOne(html, now) ==
    IF Falsy(html) THEN NoInfo
    ELSE IF html.title = <<>> THEN Logged("parse_error")
    ELSE IF Len(html.prices) < 1 THEN Logged("few_prices")
    ELSE
      LET new_price == price_to_int(html.prices[1])
          installment_price == IF Len(html.prices) < 2 THEN new_price
                               ELSE price_to_int(html.prices[2])
          old_price == IF html.old = <<>> THEN [ok |-> TRUE, val |-> 0]
                       ELSE price_to_int(html.old[1])
      IN  IF ~new_price.ok \/ ~installment_price.ok \/ ~old_price.ok
          THEN Raised("ValueError")
          ELSE IF new_price.val = 0 THEN Logged("no_price")
          ELSE [kind |-> "info", log |-> "none",
                product_name |-> get_text(html.title[1]),
                old_price |-> old_price.val,
                new_price |-> new_price.val,
                installment_price |-> installment_price.val,
                timestamp |-> now]

parse_page(html, now) ==
    IF Falsy(html) THEN NoInfo
    ELSE IF html.title = <<>> THEN Logged("parse_error")  \* AttributeError, caught
    ELSE IF Len(html.prices) < 2 THEN Logged("few_prices")
    ELSE
      LET product_name == get_text(html.title[1])
          new_price == price_to_int(html.prices[1])
          installment_price == price_to_int(html.prices[2])
          old_price == IF html.old = <<>> THEN [ok |-> TRUE, val |-> 0]
                       ELSE price_to_int(html.old[1])
      IN  IF ~new_price.ok \/ ~installment_price.ok \/ ~old_price.ok
          THEN Raised("ValueError")                      \* not caught
          ELSE IF new_price.val = 0 THEN Logged("no_price") \* `if not new_price`
          ELSE [kind |-> "info", log |-> "none",
                product_name |-> product_name,
                old_price |-> IF old_price.val # 0 THEN old_price.val ELSE 0,
                new_price |-> new_price.val,
                installment_price |-> IF installment_price.val # 0
                                      THEN installment_price.val ELSE 0,
                timestamp |-> now]

(***************************************************************************)
(* The store: table prices of the SQLite file.                             *)
(***************************************************************************)
Row(data) ==
    [product_name |-> data.product_name, old_price |-> data.old_price,
     new_price |-> data.new_price, installment_price |-> data.installment_price,
     timestamp |-> data.timestamp]

\* CREATE TABLE IF NOT EXISTS prices
setup_database(exists, table) == IF exists THEN table ELSE <<>>

\* to_sql(if_exists='replace'): the table is rebuilt from the new row
save_to_database_Replace(table, data) ==
    IF data.kind = "None" THEN table ELSE <<Row(data)>>

\* the check for data inverted: a present observation is dropped
save_to_database_Inverted(table, data) ==
    IF data.kind # "None" THEN table ELSE Append(table, Row(data))

\* pandas to_sql(if_exists='append'); nothing for a falsy data
save_to_database(table, data) ==
    IF data.kind = "None" THEN table ELSE Append(table, Row(data))

\* the query without its WHERE clause
Matching_All(table, product_name) == table

\* WHERE product_name = ?
Matching(table, product_name) ==
    SelectSeq(table, LAMBDA r : r.product_name = product_name)

\* MAX(new_price): a scan that keeps the greater value
RECURSIVE MaxScan(_, _)
MaxScan(sel, best) ==
    IF sel = <<>> THEN best
    ELSE MaxScan(Tail(sel),
                 IF Head(sel).new_price > best THEN Head(sel).new_price ELSE best)

NoMax == [present |-> FALSE, price |-> 0, timestamp |-> 0]

\* The results the query may give: the bare column timestamp is taken from
\* one of the rows holding the maximum, which one is not defined.
get_max_price(table, product_name) ==
    LET sel == Matching(table, product_name)
    IN  IF sel = <<>> THEN { NoMax }
        ELSE LET m == MaxScan(Tail(sel), Head(sel).new_price)
             IN  { [present |-> TRUE, price |-> m, timestamp |-> sel[i].timestamp] :
                     i \in { j \in 1..Len(sel) : sel[j].new_price = m } }

(***************************************************************************)
(* send_telegram_message: the text it builds.                              *)
(***************************************************************************)
\* `>=` instead of `>`
MessageVariant_GE(current_price, max_price) ==
    IF ~max_price.present THEN "first_record"
    ELSE IF current_price >= max_price.price THEN "new_high"
    ELSE "previous_max"

MessageVariant(current_price, max_price) ==
    IF ~max_price.present THEN "first_record"
    ELSE IF current_price > max_price.price THEN "new_high"
    ELSE "previous_max"

NoMessage ==
    [variant |-> "none", product_name |-> <<>>, current_price |-> 0,
     max_price |-> 0, max_price_timestamp |-> 0, delivery |-> "none"]

\* delivery: "pending" while bot.send_message is awaited, then "delivered"
\* or "failed"
Message(product_name, current_price, max_price, delivery) ==
    LET v == MessageVariant(current_price, max_price)
    IN  [variant |-> v, product_name |-> product_name,
         current_price |-> current_price,
         max_price |-> IF v = "previous_max" THEN max_price.price ELSE 0,
         max_price_timestamp |-> IF v = "previous_max" THEN max_price.timestamp ELSE 0,
         delivery |-> delivery]

(***************************************************************************)
(* main: the poll loop.                                                    *)
(***************************************************************************)
VARIABLES
    state,          \* "NEW", "RUNNING", "STOPPED" (interrupted) or "CRASHED"
    exception,      \* the exception that ended main, "None" while it runs
    conn_open,      \* conn is open
    close_count,    \* calls of conn.close() by this process
    table_exists,   \* the file holds table prices
    rows,           \* the rows of table prices, in insertion order
    clock,          \* the local wall clock, in seconds
    pc,             \* where main is: fetch, parse, max, notify, sending, save,
                    \* sleep
    url_idx,        \* index of url in PRODUCT_URLS
    page_content,   \* result of fetch_page
    product_info,   \* result of parse_page
    max_price,      \* result of get_max_price
    last_message,   \* the message this iteration handed to bot.send_message
    cycle_log,      \* per url of the running cycle: what the iteration logged
                    \* and how often it notified and inserted
    cycle_base      \* number of rows when the running cycle began

vars == <<state, exception, conn_open, close_count, table_exists, rows, clock,
          pc, url_idx, page_content, product_info, max_price, last_message,
          cycle_log, cycle_base>>

NumUrls == Len(PRODUCT_URLS)

\* outcome: "pending", "fetch_error", "no_content", the log of parse_page
\* when it returned None ("none" when it logged nothing), or "extracted"
FreshLog ==
    [i \in 1..NumUrls |->
        [outcome |-> "pending", notified |-> 0, undelivered |-> 0, inserted |-> 0]]

Init ==
    /\ state = "NEW"
    /\ exception = "None"
    /\ conn_open = FALSE
    /\ close_count = 0
    /\ table_exists = FALSE
    /\ rows = <<>>
    /\ clock = 0
    /\ pc = "fetch"
    /\ url_idx = 1
    /\ page_content = NoContent
    /\ product_info = NoInfo
    /\ max_price = NoMax
    /\ last_message = NoMessage
    /\ cycle_log = FreshLog
    /\ cycle_base = 0

\* create_connection, setup_database and entry into `while True`; also the
\* start of a new process after an earlier one has ended
Startup ==
    /\ state # "RUNNING"
    /\ state' = "RUNNING"
    /\ exception' = "None"
    /\ conn_open' = TRUE
    /\ close_count' = 0
    /\ table_exists' = TRUE
    /\ rows' = setup_database(table_exists, rows)
    /\ pc' = "fetch"
    /\ url_idx' = 1
    /\ page_content' = NoContent
    /\ product_info' = NoInfo
    /\ max_price' = NoMax
    /\ cycle_log' = FreshLog
    /\ cycle_base' = Len(rows')
    /\ last_message' = NoMessage
    /\ UNCHANGED clock

\* main without its `finally`: the connection is left open
Terminate_NoClose(e) ==
    /\ state' = (IF e = "KeyboardInterrupt" THEN "STOPPED" ELSE "CRASHED")
    /\ exception' = e
    /\ page_content' = NoContent
    /\ product_info' = NoInfo
    /\ max_price' = NoMax
    /\ last_message' = NoMessage
    /\ cycle_log' = FreshLog
    /\ UNCHANGED <<conn_open, close_count, table_exists, rows, clock, pc,
                   url_idx, cycle_base>>

\* an exception leaves the try block of main: `finally: conn.close()`, and
\* the process ends, its locals with it
Terminate(e) ==
    /\ state' = (IF e = "KeyboardInterrupt" THEN "STOPPED" ELSE "CRASHED")
    /\ exception' = e
    /\ conn_open' = FALSE
    /\ close_count' = close_count + 1
    /\ page_content' = NoContent
    /\ product_info' = NoInfo
    /\ max_price' = NoMax
    /\ last_message' = NoMessage
    /\ cycle_log' = FreshLog
    /\ UNCHANGED <<table_exists, rows, clock, pc, url_idx, cycle_base>>

\* end of one iteration of `for url in PRODUCT_URLS`, or `continue`; the
\* locals of the iteration are dead from here on (each is assigned again
\* before it is read) and are cleared
NextUrl ==
    /\ IF url_idx < NumUrls
       THEN pc' = "fetch" /\ url_idx' = url_idx + 1
       ELSE pc' = "sleep" /\ url_idx' = url_idx
    /\ page_content' = NoContent
    /\ product_info' = NoInfo
    /\ max_price' = NoMax
    /\ last_message' = NoMessage

\* page_content = fetch_page(url): the text of the response, or None on a
\* requests.RequestException; the request takes some time
FetchPage ==
    /\ state = "RUNNING" /\ pc = "fetch"
    /\ Len(rows) < MaxRows
    /\ \E content \in {NoContent, EmptyHtml} \cup HtmlPages :
         page_content' = content
    /\ \E d \in {0, 1} : clock + d <= MaxClock /\ clock' = clock + d
    /\ pc' = "parse"
    /\ cycle_log' = [cycle_log EXCEPT ![url_idx].outcome =
                        IF page_content'.kind = "None" THEN "fetch_error" ELSE "pending"]
    /\ UNCHANGED <<state, exception, conn_open, close_count, table_exists, rows,
                   url_idx, product_info, max_price, last_message, cycle_base>>

\* product_info = parse_page(page_content); `if not product_info: continue`
ParsePage ==
    /\ state = "RUNNING" /\ pc = "parse"
    /\ LET r == parse_page(page_content, clock)
       IN  IF r.kind = "ValueError"
           THEN Terminate("ValueError")
           ELSE /\ IF r.kind = "None"
                   THEN /\ NextUrl
                        /\ cycle_log' = [cycle_log EXCEPT ![url_idx].outcome =
                              IF page_content.kind = "None" THEN @
                              ELSE IF page_content.kind = "empty" THEN "no_content"
                              ELSE r.log]
                   ELSE /\ product_info' = r
                        /\ pc' = "max" /\ url_idx' = url_idx
                        /\ cycle_log' = [cycle_log EXCEPT ![url_idx].outcome = "extracted"]
                        /\ UNCHANGED <<page_content, max_price, last_message>>
                /\ UNCHANGED <<state, exception, conn_open, close_count,
                               table_exists, rows, clock, cycle_base>>

\* max_price, max_price_timestamp = get_max_price(conn, product_name)
GetMaxPrice ==
    /\ state = "RUNNING" /\ pc = "max"
    /\ \E r \in get_max_price(rows, product_info.product_name) : max_price' = r
    /\ pc' = "notify"
    /\ UNCHANGED <<state, exception, conn_open, close_count, table_exists, rows,
                   clock, url_idx, page_content, product_info, last_message,
                   cycle_log, cycle_base>>

\* await send_telegram_message(...), up to the await of line 164: the
\* message is built and handed to bot.send_message, and main is suspended
SendTelegramMessage ==
    /\ state = "RUNNING" /\ pc = "notify"
    /\ last_message' = Message(product_info.product_name,
                               product_info.new_price, max_price, "pending")
    /\ cycle_log' = [cycle_log EXCEPT ![url_idx].notified = @ + 1]
    /\ pc' = "sending"
    /\ UNCHANGED <<state, exception, conn_open, close_count, table_exists, rows,
                   clock, url_idx, page_content, product_info, max_price,
                   cycle_base>>

\* the await without the `except Exception` around it: a failed delivery
\* leaves main
AwaitSendMessage_Uncaught ==
    /\ state = "RUNNING" /\ pc = "sending"
    /\ \/ /\ last_message' = [last_message EXCEPT !.delivery = "delivered"]
          /\ pc' = "save"
          /\ UNCHANGED <<state, exception, conn_open, close_count, table_exists,
                         rows, clock, url_idx, page_content, product_info,
                         max_price, cycle_log, cycle_base>>
       \/ Terminate("TelegramError")

\* the await of bot.send_message ends: the message was delivered, or the
\* call raised, which `except Exception` catches and logs
AwaitSendMessage ==
    /\ state = "RUNNING" /\ pc = "sending"
    /\ \E delivered \in BOOLEAN :
         /\ last_message' = [last_message EXCEPT !.delivery =
                                IF delivered THEN "delivered" ELSE "failed"]
         /\ cycle_log' = [cycle_log EXCEPT ![url_idx].undelivered =
                                IF delivered THEN @ ELSE @ + 1]
    /\ pc' = "save"
    /\ UNCHANGED <<state, exception, conn_open, close_count, table_exists, rows,
                   clock, url_idx, page_content, product_info, max_price,
                   cycle_base>>

\* save_to_database(conn, product_info)
SaveToDatabase ==
    /\ state = "RUNNING" /\ pc = "save"
    /\ rows' = save_to_database(rows, product_info)
    /\ cycle_log' = [cycle_log EXCEPT ![url_idx].inserted = @ + Len(rows') - Len(rows)]
    /\ NextUrl
    /\ UNCHANGED <<state, exception, conn_open, close_count, table_exists, clock,
                   cycle_base>>

\* the store raises (sqlite3.Error) in get_max_price or save_to_database:
\* nothing in main catches it
StoreError ==
    /\ state = "RUNNING" /\ pc \in {"max", "save"}
    /\ Terminate("OperationalError")

\* await asyncio.sleep(interval), then the next round of `while True`
Sleep ==
    /\ state = "RUNNING" /\ pc = "sleep"
    /\ clock < MaxClock
    /\ clock' = clock + 1
    /\ pc' = "fetch"
    /\ url_idx' = 1
    /\ cycle_log' = FreshLog
    /\ cycle_base' = Len(rows)
    /\ UNCHANGED <<state, exception, conn_open, close_count, table_exists, rows,
                   page_content, product_info, max_price, last_message>>

\* the external interrupt, at any point of the loop
Interrupt ==
    /\ state = "RUNNING"
    /\ Terminate("KeyboardInterrupt")

Next ==
    \/ Startup
    \/ FetchPage
    \/ ParsePage
    \/ GetMaxPrice
    \/ SendTelegramMessage
    \/ AwaitSendMessage
    \/ SaveToDatabase
    \/ StoreError
    \/ Sleep
    \/ Interrupt

Spec == Init /\ [][Next]_vars

TypeOK ==
    /\ state \in {"NEW", "RUNNING", "STOPPED", "CRASHED"}
    /\ pc \in {"fetch", "parse", "max", "notify", "sending", "save", "sleep"}
    /\ url_idx \in 1..NumUrls
    /\ Len(rows) <= MaxRows
    /\ clock \in 0..MaxClock

(***************************************************************************)
(* Properties.                                                             *)
(***************************************************************************)
ProductNames == { get_text(t) : t \in TitleTexts }

NameIdx(n) == { i \in 1..Len(rows) : rows[i].product_name = n }

Running == state = "RUNNING"

\* C1: every failure while processing one URL is contained to that URL's
\* iteration; the loop leaves RUNNING only on an external interrupt, so main
\* is never ended by an exception of the iteration.
C1_FailuresContained == state # "CRASHED"

\* C2: parse_page never throws past its boundary: when a price text it
\* locates is not convertible to an integer, it returns None.
C2_ParseNeverThrows ==
    (Running /\ pc = "parse"
        /\ \E i \in 1..Len(LocatedTexts(page_content)) :
             ~price_to_int(LocatedTexts(page_content)[i]).ok)
    => parse_page(page_content, clock).kind = "None"

\* C3: parse_page returns None when new_price <= 0, so every row of table
\* prices has new_price > 0.
C3_PositivePrices == \A i \in 1..Len(rows) : rows[i].new_price > 0

\* C4: the loop queries the maximum, then notifies, then inserts; the message
\* variant is decided against the rows persisted before the observation's own
\* insert: "first record" iff no row has that product_name, "new high" iff a
\* prior maximum exists and the current price is strictly greater, otherwise
\* "previous max" carrying the stored maximum.
C4_MessageVariant ==
    /\ (Running /\ pc = "notify") =>
          max_price \in get_max_price(rows, product_info.product_name)
    /\ (Running /\ pc \in {"sending", "save"}) =>
          LET idx == NameIdx(product_info.product_name)
              cur == product_info.new_price
              m == last_message
          IN  /\ cycle_log[url_idx].notified = 1
              /\ cycle_log[url_idx].inserted = 0
              /\ m.product_name = product_info.product_name
              /\ m.current_price = cur
              /\ m.variant \in {"first_record", "new_high", "previous_max"}
              /\ m.variant = "first_record" <=> idx = {}
              /\ m.variant = "new_high" <=>
                     (idx # {} /\ \A i \in idx : cur > rows[i].new_price)
              /\ m.variant = "previous_max" <=>
                     (idx # {} /\ \E i \in idx : cur <= rows[i].new_price)
              /\ m.variant = "previous_max" =>
                     /\ \A i \in idx : rows[i].new_price <= m.max_price
                     /\ \E i \in idx : /\ rows[i].new_price = m.max_price
                                       /\ rows[i].timestamp = m.max_price_timestamp

C4_Witness ==
    /\ Running /\ pc = "save"
    /\ last_message.variant = "previous_max"
    /\ last_message.max_price = product_info.new_price

StrictlyIncreasing(n) ==
    \A i, j \in NameIdx(n) : i < j => rows[i].new_price < rows[j].new_price

Latest(n) == CHOOSE i \in NameIdx(n) : \A j \in NameIdx(n) : j <= i

\* C5: get_max_price gives the absent pair iff no row has that exact
\* product_name; otherwise the highest new_price among the rows of that name
\* with the timestamp of a row holding it; with strictly increasing prices
\* that is the latest row; rows of other names do not change the result.
C5_MaxPrice ==
    \A n \in ProductNames :
        LET res == get_max_price(rows, n)
            idx == NameIdx(n)
        IN  /\ res # {}
            /\ idx = {} => res = { NoMax }
            /\ idx # {} =>
                 \A r \in res :
                    /\ r.present
                    /\ \A i \in idx : rows[i].new_price <= r.price
                    /\ \E i \in idx : /\ rows[i].new_price = r.price
                                      /\ rows[i].timestamp = r.timestamp
            /\ (idx # {} /\ StrictlyIncreasing(n)) =>
                 res = { [present |-> TRUE, price |-> rows[Latest(n)].new_price,
                          timestamp |-> rows[Latest(n)].timestamp] }
            /\ res = get_max_price(
                        SelectSeq(rows, LAMBDA r : r.product_name = n), n)

C5_Witness ==
    \E n \in ProductNames :
        /\ Cardinality(NameIdx(n)) >= 2
        /\ StrictlyIncreasing(n)

\* C6: a failed delivery is caught: the step that ends the await of the
\* delivery, unless it is the external interrupt, goes on to the insert with
\* the same observation, the insert appends that observation and the loop
\* goes on; in a completed cycle every undelivered notification has its row.
C6_Step ==
    /\ (Running /\ pc = "notify" /\ exception' # "KeyboardInterrupt") =>
          /\ state' = "RUNNING" /\ pc' = "sending"
          /\ product_info' = product_info
          /\ last_message'.delivery = "pending"
    /\ (Running /\ pc = "sending" /\ exception' # "KeyboardInterrupt") =>
          /\ state' = "RUNNING" /\ pc' = "save"
          /\ product_info' = product_info
          /\ last_message'.delivery \in {"delivered", "failed"}
    /\ (Running /\ pc = "save" /\ last_message.delivery = "failed"
          /\ state' = "RUNNING") =>
          /\ rows' = Append(rows, Row(product_info))
          /\ pc' \in {"fetch", "sleep"}
    /\ (state' = "RUNNING" /\ pc' = "sleep") =>
          \A i \in 1..NumUrls : cycle_log'[i].undelivered <= cycle_log'[i].inserted

C6_NotifyFailureDoesNotBlock == [][C6_Step]_vars

C6_Witness ==
    /\ Running
    /\ \E i \in 1..NumUrls :
          cycle_log[i].undelivered = 1 /\ cycle_log[i].inserted = 1

Extracted == { i \in 1..NumUrls : cycle_log[i].outcome = "extracted" }

\* C7: in a completed cycle each URL whose fetch and extraction succeeded
\* contributed exactly one row and one notification attempt, every other URL
\* none; the cycle added as many rows as URLs succeeded.
C7_OnePerSuccess ==
    (Running /\ pc = "sleep") =>
        /\ \A i \in 1..NumUrls :
              /\ cycle_log[i].outcome # "pending"
              /\ i \in Extracted =>
                    cycle_log[i].inserted = 1 /\ cycle_log[i].notified = 1
              /\ i \notin Extracted =>
                    cycle_log[i].inserted = 0 /\ cycle_log[i].notified = 0
        /\ Len(rows) = cycle_base + Cardinality(Extracted)

C7_Witness ==
    /\ Running /\ pc = "sleep"
    /\ cycle_log[1].outcome = "fetch_error"
    /\ cycle_log[2].outcome = "extracted"
    /\ Len(rows) = cycle_base + 1

\* C8: an interrupt while RUNNING, at any point of the loop, leads to STOPPED
\* with the connection opened at startup closed exactly once and the rows
\* untouched; after STOPPED nothing is fetched, notified or inserted (only a
\* new process can follow).
C8_Step ==
    /\ Running => conn_open /\ close_count = 0
    /\ (Running /\ exception' = "KeyboardInterrupt") =>
          /\ state' = "STOPPED"
          /\ ~conn_open' /\ close_count' = 1
          /\ rows' = rows
    /\ state = "STOPPED" =>
          /\ ~conn_open /\ close_count = 1
          /\ rows' = rows
          /\ state' = "RUNNING" /\ pc' = "fetch" /\ url_idx' = 1
          /\ last_message' = NoMessage /\ cycle_log' = FreshLog

C8_InterruptStops == [][C8_Step]_vars

C8_Witness ==
    /\ state = "STOPPED"
    /\ url_idx = 2
    /\ Len(rows) = cycle_base + 1
    /\ close_count = 1

\* C9: a page with a product title and fewer than two price nodes makes
\* parse_page return None; the iteration ends there, with no notification and
\* no row for that URL.
C9_Step ==
    (Running /\ pc = "parse" /\ page_content.kind = "html"
        /\ page_content.title # <<>> /\ Len(page_content.prices) < 2) =>
          /\ parse_page(page_content, clock).kind = "None"
          /\ rows' = rows
          /\ last_message' = NoMessage
          /\ state' = "RUNNING" =>
                /\ pc' \in {"fetch", "sleep"}
                /\ cycle_log'[url_idx].outcome = "few_prices"
                /\ cycle_log'[url_idx].notified = 0
                /\ cycle_log'[url_idx].inserted = 0

C9_FewPricesAbsent == [][C9_Step]_vars

C9_Witness ==
    /\ Running
    /\ \E i \in 1..NumUrls :
          /\ cycle_log[i].outcome = "few_prices"
          /\ (i < url_idx \/ pc = "sleep")

RowsOf(table, n) == { i \in 1..Len(table) : table[i].product_name = n }

\* C10: the store is append-only: save_to_database adds exactly one row for
\* a present observation and nothing for an absent one, no other step
\* changes the rows, and the maximum of a product_name never decreases.
C10_Step ==
    /\ Len(rows') \in {Len(rows), Len(rows) + 1}
    /\ SubSeq(rows', 1, Len(rows)) = rows
    /\ (Running /\ pc = "save" /\ state' = "RUNNING") =>
          rows' = Append(rows, Row(product_info))
    /\ ~(Running /\ pc = "save") => rows' = rows
    /\ save_to_database(rows, NoInfo) = rows
    /\ \A n \in ProductNames :
          \A i \in RowsOf(rows, n) :
             \E j \in RowsOf(rows', n) : rows'[j].new_price >= rows[i].new_price

C10_AppendOnly == [][C10_Step]_vars

C10_Witness ==
    /\ Len(rows) >= 2
    /\ rows[1].product_name = rows[2].product_name
    /\ rows[2].new_price < rows[1].new_price

====
